---- MODULE Spec2Model ----
(***************************************************************************)
(* Model of hyperscribe's node-construction engine: createElement,         *)
(* addProps and addChildren, over a small heap of DOM nodes.                *)
(*                                                                         *)
(* JavaScript values are tagged records ([t |-> "string", s |-> ...]); an  *)
(* object or array carries its own enumerable properties as a sequence of  *)
(* key/value pairs in insertion order (the order `for .. in` visits them). *)
(* The DOM is a heap: a sequence of node records, a node's identity is its *)
(* index.  Host operations behave as the DOM standard says for valid       *)
(* arguments (appendChild moves a node that already has a parent,          *)
(* classList is an ordered set of tokens sharing its state with            *)
(* className); host rejections (invalid tag, token or attribute name) are  *)
(* outside the model.                                                      *)
(***************************************************************************)
EXTENDS Integers, Sequences, FiniteSets, TLC

VARIABLES heap, call, ncalls

vars == <<heap, call, ncalls>>

----------------------------------------------------------------------------
(* JavaScript values *)

Undef == [t |-> "undefined"]

Null == [t |-> "null"]

Str(s) == [t |-> "string", s |-> s]

Num(n) == [t |-> "number", n |-> n]

Bool(b) == [t |-> "boolean", b |-> b]

\* A function value: `throws` says whether calling it raises, `ret` is what
\* it returns otherwise.
Fn(name, throws, ret) == [t |-> "function", name |-> name, throws |-> throws, ret |-> ret]

\* A reference to a DOM node (Element, Comment or Text) of the heap.
Node(id) == [t |-> "node", id |-> id]

Arr(items, own) == [t |-> "array", items |-> items, own |-> own]

\* An object literal: a plain object with the own properties `own`.
Obj(own) == [t |-> "object", plain |-> TRUE, own |-> own]

\* An instance of a user-defined class with the own fields `own`; like every
\* object without Symbol.toStringTag it is "[object Object]" to
\* Object.prototype.toString.
Inst(own) == [t |-> "object", plain |-> FALSE, own |-> own]

Pair(k, v) == [k |-> k, v |-> v]

\* What a producer returns when its body builds a new element on each call,
\* as `toElement: () => $('span')` does.
Create(tag) == [t |-> "create", tag |-> tag]

EmptyMap == <<>>

\* An assignment that leaves a key that is already set as it is.
MapSetKeepsFirst(m, k, v) == IF k \in DOMAIN m THEN m ELSE (k :> v) @@ m

\* target[k] = v
MapSet(m, k, v) == (k :> v) @@ m

MapGet(m, k) == IF k \in DOMAIN m THEN m[k] ELSE Undef

Digit(d) == <<"0", "1", "2", "3", "4", "5", "6", "7", "8", "9">>[d + 1]

RECURSIVE NumStr(_)
NumStr(n) == IF n < 10 THEN Digit(n) ELSE NumStr(n \div 10) \o Digit(n % 10)

\* The own property `key` of an object or array, Undef when it has none.
RECURSIVE OwnGet(_, _)
OwnGet(own, key) ==
  IF own = <<>> THEN Undef
  ELSE IF own[Len(own)].k = key THEN own[Len(own)].v
  ELSE OwnGet(SubSeq(own, 1, Len(own) - 1), key)

HasOwn(own, key) == \E j \in 1..Len(own) : own[j].k = key

\* String coercion ('' + v, String(v), and the coercion the host applies to
\* className, dataset entries and attribute values).
RECURSIVE ToStr(_)
RECURSIVE Join(_)
ToStr(v) ==
  CASE v.t = "undefined" -> "undefined"
    [] v.t = "null" -> "null"
    [] v.t = "string" -> v.s
    [] v.t = "number" -> NumStr(v.n)
    [] v.t = "boolean" -> IF v.b THEN "true" ELSE "false"
    [] v.t = "function" -> "function " \o v.name
    [] v.t = "node" -> "[object Node]"
    [] v.t = "array" -> Join(v.items)
    [] v.t = "object" ->
         IF OwnGet(v.own, "toString").t = "function"
         THEN ToStr(OwnGet(v.own, "toString").ret)
         ELSE "[object Object]"

Join(items) ==
  IF items = <<>> THEN ""
  ELSE LET last == items[Len(items)]
           s == IF last.t \in {"undefined", "null"} THEN "" ELSE ToStr(last)
       IN IF Len(items) = 1 THEN s
          ELSE Join(SubSeq(items, 1, Len(items) - 1)) \o "," \o s

\* {}.toString.call(v)
ObjectToString(v) ==
  CASE v.t = "undefined" -> "[object Undefined]"
    [] v.t = "null" -> "[object Null]"
    [] v.t = "string" -> "[object String]"
    [] v.t = "number" -> "[object Number]"
    [] v.t = "boolean" -> "[object Boolean]"
    [] v.t = "function" -> "[object Function]"
    [] v.t = "node" -> "[object HTMLElement]"
    [] v.t = "array" -> "[object Array]"
    [] v.t = "object" -> "[object Object]"

TypeOf(v) ==
  CASE v.t \in {"undefined", "string", "number", "boolean", "function"} -> v.t
    [] OTHER -> "object"

\* JavaScript truthiness, as `children && ...` tests it.
Truthy(v) ==
  CASE v.t \in {"undefined", "null"} -> FALSE
    [] v.t = "string" -> v.s # ""
    [] v.t = "number" -> v.n # 0
    [] v.t = "boolean" -> v.b
    [] OTHER -> TRUE

----------------------------------------------------------------------------
(* The DOM heap *)

NewNode(kind, name) ==
  [kind |-> kind, name |-> name, props |-> EmptyMap, attrs |-> EmptyMap,
   classes |-> <<>>, style |-> EmptyMap, dataset |-> EmptyMap, children |-> <<>>]

RECURSIVE Without(_, _)
Without(s, x) ==
  IF s = <<>> THEN <<>>
  ELSE IF s[1] = x THEN Without(Tail(s), x)
  ELSE <<s[1]>> \o Without(Tail(s), x)

InSeq(s, x) == \E j \in 1..Len(s) : s[j] = x

\* el.appendChild(c): c leaves the parent it has, if any (removeChild), and
\* becomes the last child of el.
\* A node that stays with the parent it has.
removeChildKept(h, c) == h

RECURSIVE removeChild(_, _)
removeChild(h, c) ==
  IF h = <<>> THEN <<>>
  ELSE <<[h[1] EXCEPT !.children = Without(@, c)]>> \o removeChild(Tail(h), c)

appendChild(h, el, c) == [removeChild(h, c) EXCEPT ![el].children = Append(@, c)]

\* value.key, for the keys the engine reads: an expando of a node, an own
\* property of an object or array, else what the prototype chain provides
\* (every value but null and undefined inherits a toString method).
Get(h, v, key) ==
  LET own == CASE v.t = "node" -> MapGet(h[v.id].props, key)
               [] v.t \in {"array", "object"} -> OwnGet(v.own, key)
               [] OTHER -> Undef
      has == CASE v.t = "node" -> key \in DOMAIN h[v.id].props
               [] v.t \in {"array", "object"} -> HasOwn(v.own, key)
               [] OTHER -> FALSE
  IN IF has THEN own
     ELSE IF key = "toString" THEN Fn("toString", FALSE, Str(ToStr(v)))
     ELSE Undef

----------------------------------------------------------------------------
(* Execution state of one call: the heap, the events so far, and whether an
   exception is propagating. *)

Start(h) == [heap |-> h, trace |-> <<>>, status |-> "ok", err |-> "", ret |-> 0]

Event(ev, i, val, node, snap) == [ev |-> ev, i |-> i, val |-> val, node |-> node, snap |-> snap]

\* The event records what the code does at this point together with the node
\* el as it is at that moment; i is the argument index of an "arg" event.
EmitAt(st, ev, i, val, el) ==
  [st EXCEPT !.trace = Append(@, Event(ev, i, val, el, st.heap[el]))]

Emit(st, ev, val, el) == EmitAt(st, ev, 0, val, el)

Throw(st, err) == [st EXCEPT !.status = "throw", !.err = err]

\* Calling the function f with the node el: it raises, or returns after the
\* caller's code has observed el.
CallFn(st, ev, f, el) ==
  LET st1 == Emit(st, ev, f, el)
  IN IF f.throws THEN Throw(st1, f.name) ELSE st1

----------------------------------------------------------------------------
(* addProps *)

\* The characters of the strings the model enumerates with `for .. in`.
Chars(s) ==
  CASE s = "" -> <<>>
    [] s = "ab" -> <<"a", "b">>
    [] OTHER -> <<s>>

\* The key/value pairs `for (const k in v)` visits, in order: the indices of
\* an array or string, then the own enumerable properties; nothing for null,
\* undefined, a number, a boolean or a function.
\* The elements of a sequence paired with their indices, from index n on.
RECURSIVE Indexed(_, _)
Indexed(items, n) ==
  IF items = <<>> THEN <<>>
  ELSE <<Pair(NumStr(n), items[1])>> \o Indexed(Tail(items), n + 1)

RECURSIVE StrAll(_)
StrAll(chars) == IF chars = <<>> THEN <<>> ELSE <<Str(chars[1])>> \o StrAll(Tail(chars))

\* An enumeration that visits the properties of objects only.
ForInMappingsOnly(v) == IF v.t = "object" THEN v.own ELSE <<>>

ForIn(v) ==
  CASE v.t = "object" -> v.own
    [] v.t = "array" -> Indexed(v.items, 0) \o v.own
    [] v.t = "string" -> Indexed(StrAll(Chars(v.s)), 0)
    [] OTHER -> <<>>

\* The tokens of a class string; the class strings of the model hold no
\* white space, so a non-empty one is a single token.
Tokens(s) == IF s = "" THEN <<>> ELSE <<s>>

\* The array taking the place of the classes present.
RECURSIVE classListReplaced(_, _)
classListReplaced(classes, items) ==
  IF items = <<>> THEN <<>>
  ELSE <<ToStr(items[1])>> \o classListReplaced(<<>>, Tail(items))

\* el.classList.add(...items): each token not yet in the list is appended.
RECURSIVE classListAdd(_, _)
classListAdd(classes, items) ==
  IF items = <<>> THEN classes
  ELSE LET tok == ToStr(items[1])
       IN classListAdd(IF InSeq(classes, tok) THEN classes ELSE Append(classes, tok),
                       Tail(items))

\* for (k in m) target[k] = m[k], with the host's coercion of each value.
RECURSIVE AssignAll(_, _, _)
AssignAll(map, pairs, coerce) ==
  IF pairs = <<>> THEN map
  ELSE AssignAll(MapSet(map, pairs[1].k, IF coerce THEN ToStr(pairs[1].v) ELSE pairs[1].v),
                 Tail(pairs), coerce)

RECURSIVE setAriaAttributes(_, _)
setAriaAttributes(attrs, pairs) ==
  IF pairs = <<>> THEN attrs
  ELSE setAriaAttributes(MapSet(attrs, "aria-" \o pairs[1].k, ToStr(pairs[1].v)), Tail(pairs))

\* Every key assigned as a same-named property, the special cases missing.
addPropNoSpecialCases(node, key, value) == [node EXCEPT !.props = MapSet(@, key, value)]

\* A class value that is no array added to the class list like one token.
addPropClassAdded(node, key, value) ==
  IF key = "class" /\ value.t \notin {"array", "undefined", "null"}
  THEN [node EXCEPT !.classes = classListAdd(@, <<value>>)]
  ELSE IF key = "class" /\ value.t = "array"
  THEN [node EXCEPT !.classes = classListAdd(@, value.items)]
  ELSE IF key = "class" THEN node
  ELSE [node EXCEPT !.props = MapSet(@, key, value)]

\* One iteration of addProps' loop: the node after the key `key`, whose
\* value in the bag is `value`, has been applied.
addProp(node, key, value) ==
  CASE key = "class" ->
         IF value.t = "array" THEN [node EXCEPT !.classes = classListAdd(@, value.items)]
         ELSE IF value.t \notin {"undefined", "null"}
         THEN [node EXCEPT !.classes = Tokens(ToStr(value))]
         ELSE node
    [] key = "for" -> [node EXCEPT !.props = MapSet(@, "htmlFor", value)]
    [] key = "tabindex" -> [node EXCEPT !.props = MapSet(@, "tabIndex", value)]
    [] key = "style" -> [node EXCEPT !.style = AssignAll(@, ForIn(value), FALSE)]
    [] key = "dataset" -> [node EXCEPT !.dataset = AssignAll(@, ForIn(value), TRUE)]
    [] key = "role" -> [node EXCEPT !.attrs = MapSet(@, "role", ToStr(value))]
    [] key = "aria" -> [node EXCEPT !.attrs = setAriaAttributes(@, ForIn(value))]
    [] OTHER -> [node EXCEPT !.props = MapSet(@, key, value)]

RECURSIVE addPropsLoop(_, _)
addPropsLoop(node, pairs) ==
  IF pairs = <<>> THEN node
  ELSE addPropsLoop(addProp(node, pairs[1].k, pairs[1].v), Tail(pairs))

\* A bag applied only to a node that has no property yet.
addPropsOnNewOnly(st, props, el) ==
  LET st1 == Emit(st, "addProps", props, el)
  IN IF st.heap[el].props # EmptyMap THEN st1
     ELSE [st1 EXCEPT !.heap[el] = addPropsLoop(@, ForIn(props))]

\* addProps(props, el)
addProps(st, props, el) ==
  LET st1 == Emit(st, "addProps", props, el)
  IN [st1 EXCEPT !.heap[el] = addPropsLoop(@, ForIn(props))]

----------------------------------------------------------------------------
(* addChildren *)

\* document.createComment / createTextNode / createElement followed by
\* el.appendChild of the new node, whose identity is the next heap index.
appendNew(st, el, kind, name) ==
  LET id == Len(st.heap) + 1
      st1 == [st EXCEPT !.heap = appendChild(Append(@, NewNode(kind, name)), el, id)]
  IN Emit(st1, "appendChild", Node(id), el)

appendNode(st, el, id) ==
  Emit([st EXCEPT !.heap = appendChild(@, el, id)], "appendChild", Node(id), el)

\* el.appendChild(children.toElement())
appendElementable(st, children, el) ==
  LET f == Get(st.heap, children, "toElement")
      st1 == CallFn(st, "toElement", f, el)
  IN IF st1.status # "ok" THEN st1
     ELSE IF f.ret.t = "create" THEN appendNew(st1, el, "element", f.ret.tag)
     ELSE IF f.ret.t = "node" THEN appendNode(st1, el, f.ret.id)
     ELSE Throw(st1, "TypeError")

\* The string of toString() obtained and no text node made of it.
appendStringableDropped(st, children, el) ==
  CallFn(st, "toString", Get(st.heap, children, "toString"), el)

\* el.appendChild(document.createTextNode(children.toString()))
appendStringable(st, children, el) ==
  LET f == Get(st.heap, children, "toString")
      st1 == CallFn(st, "toString", f, el)
  IN IF st1.status # "ok" THEN st1
     ELSE appendNew(st1, el, "text", ToStr(f.ret))

\* el.appendChild(document.createTextNode('' + children)): reached only by a
\* value without a callable toString, which the conversion to a primitive
\* rejects unless valueOf yields one.
appendCoerced(st, children, el) ==
  LET f == Get(st.heap, children, "valueOf")
      st1 == IF f.t = "function" THEN CallFn(st, "valueOf", f, el) ELSE st
  IN IF st1.status # "ok" THEN st1
     ELSE IF f.t = "function" /\ f.ret.t \in {"string", "number", "boolean", "undefined", "null"}
     THEN appendNew(st1, el, "text", ToStr(f.ret))
     ELSE Throw(st1, "TypeError")

\* A null or undefined child silently dropped.
appendCommentSkipped(st, children, el) == st

\* el.appendChild(document.createComment('' + children))
appendComment(st, children, el) == appendNew(st, el, "comment", ToStr(children))

RECURSIVE addChildren(_, _, _)
RECURSIVE forEachChild(_, _, _)
RECURSIVE forEachChildReversed(_, _, _)

\* The before-hook looked for on leaves only, never on a sequence.
callBeforeLeavesOnly(st, children, el) ==
  LET f == IF Truthy(children) /\ children.t # "array"
           THEN Get(st.heap, children, "onbeforeappend") ELSE Undef
  IN IF st.status = "ok" /\ f.t = "function" THEN CallFn(st, "onbeforeappend", f, el) ELSE st

\* if (children && typeof children.onbeforeappend === 'function') ...
callBefore(st, children, el) ==
  LET f == IF Truthy(children) THEN Get(st.heap, children, "onbeforeappend") ELSE Undef
  IN IF st.status = "ok" /\ f.t = "function" THEN CallFn(st, "onbeforeappend", f, el) ELSE st

\* The dispatch with the toString test ahead of the toElement test.
appendContentStringFirst(st, children, el) ==
  IF st.status # "ok" THEN st
  ELSE IF children.t = "array" THEN forEachChild(st, children.items, el)
  ELSE IF children.t = "node" THEN appendNode(st, el, children.id)
  ELSE IF children.t \in {"undefined", "null"} THEN appendComment(st, children, el)
  ELSE IF Get(st.heap, children, "toString").t = "function"
  THEN appendStringable(st, children, el)
  ELSE IF Get(st.heap, children, "toElement").t = "function"
  THEN appendElementable(st, children, el)
  ELSE appendCoerced(st, children, el)

\* The dispatch on the shape of the child.
appendContent(st, children, el) ==
  IF st.status # "ok" THEN st
  ELSE IF children.t = "array" THEN forEachChild(st, children.items, el)
  ELSE IF children.t = "node" THEN appendNode(st, el, children.id)
  ELSE IF children.t \in {"undefined", "null"} THEN appendComment(st, children, el)
  ELSE IF Get(st.heap, children, "toElement").t = "function"
  THEN appendElementable(st, children, el)
  ELSE IF Get(st.heap, children, "toString").t = "function"
  THEN appendStringable(st, children, el)
  ELSE appendCoerced(st, children, el)

\* if (children && typeof children.onappend === 'function') ...
callAfter(st, children, el) ==
  LET f == IF Truthy(children) THEN Get(st.heap, children, "onappend") ELSE Undef
  IN IF st.status = "ok" /\ f.t = "function" THEN CallFn(st, "onappend", f, el) ELSE st

\* addChildren with the before-hook called once the content is appended.
addChildrenBeforeHookLate(st, children, el) ==
  callAfter(
    callBefore(appendContent(Emit(st, "addChildren", children, el), children, el),
               children, el),
    children, el)

\* addChildren(children, el)
addChildren(st, children, el) ==
  callAfter(
    appendContent(callBefore(Emit(st, "addChildren", children, el), children, el),
                  children, el),
    children, el)

\* The elements of the sequence visited from the last to the first.
forEachChildReversed(st, items, el) ==
  IF items = <<>> \/ st.status # "ok" THEN st
  ELSE forEachChild(addChildren(st, items[Len(items)], el),
                    SubSeq(items, 1, Len(items) - 1), el)

\* children.forEach(child => addChildren(child, el)); an exception ends it.
forEachChild(st, items, el) ==
  IF items = <<>> \/ st.status # "ok" THEN st
  ELSE forEachChild(addChildren(st, items[1], el), Tail(items), el)

----------------------------------------------------------------------------
(* createElement *)

\* The body of createElement's loop for the argument at index i.
routeArg(st, arg, i, el) ==
  LET st1 == EmitAt(st, "arg", i, arg, el)
  IN IF ObjectToString(arg) = "[object Object]" THEN addProps(st1, arg, el)
     ELSE IF TypeOf(arg) = "function" THEN CallFn(st1, "hook", arg, el)
     ELSE addChildren(st1, arg, el)

RECURSIVE argsLoop(_, _, _, _)

\* The loop running from the last argument to the first.
argsLoopReversed(st, args, i, el) ==
  IF i >= Len(args) \/ st.status # "ok" THEN st
  ELSE argsLoop(routeArg(st, args[Len(args) - i], Len(args) - 1 - i, el), args, i + 1, el)

\* The loop going on to the next argument after an exception.
argsLoopNoAbort(st, args, i, el) ==
  IF i >= Len(args) THEN st
  ELSE argsLoop(routeArg(st, args[i + 1], i, el), args, i + 1, el)

\* for (let i = 0, l = args.length; i < l; i++) ...; an exception ends it.
argsLoop(st, args, i, el) ==
  IF i >= Len(args) \/ st.status # "ok" THEN st
  ELSE argsLoop(routeArg(st, args[i + 1], i, el), args, i + 1, el)

\* createElement(tag, ...args): the new element is the next heap index; it
\* is returned unless an exception ended the loop.
createElement(st, tag, args) ==
  LET el == Len(st.heap) + 1
      st1 == argsLoop([st EXCEPT !.heap = Append(@, NewNode("element", tag))], args, 0, el)
  IN IF st1.status = "ok" THEN [st1 EXCEPT !.ret = el] ELSE st1

----------------------------------------------------------------------------
(* The calls a program makes *)

\* The record of the latest call: its operation and arguments, the node it
\* creates or targets, the heap before it, the events of its execution, how
\* it ended, and which call came before it.
Called(op, tag, args, el, pre, st, prev) ==
  [op |-> op, tag |-> tag, args |-> args, el |-> el, pre |-> pre,
   trace |-> st.trace, status |-> st.status, err |-> st.err, ret |-> st.ret,
   prev |-> prev]

\* What a call record keeps of the call before it.
Summary(c) == [op |-> c.op, args |-> c.args, el |-> c.el]

NoCall == Called("none", "", <<>>, 0, <<>>, Start(<<>>), [op |-> "none", args |-> <<>>, el |-> 0])

MaxArgs == 3

onbeforeappendFn == Fn("onbeforeappend", FALSE, Undef)

onappendFn == Fn("onappend", FALSE, Undef)

\* The nodes the caller holds before the call: a span that carries both
\* lifecycle hooks (1), and a text node (2) that is the child of a div (3).
InitHeap ==
  << [NewNode("element", "span") EXCEPT
        !.props = MapSet(MapSet(EmptyMap, "onbeforeappend", onbeforeappendFn),
                         "onappend", onappendFn)],
     NewNode("text", "t"),
     [NewNode("element", "div") EXCEPT !.children = <<2>>] >>

hookA == Fn("hookA", FALSE, Undef)

hookThrows == Fn("hookThrows", TRUE, Undef)

bagX == Obj(<<Pair("id", Str("x")), Pair("class", Arr(<<Str("a"), Str("b")>>, <<>>))>>)

elementable == Obj(<<Pair("toElement", Fn("toElement", FALSE, Create("span")))>>)

stringable == Obj(<<Pair("toString", Fn("toString", FALSE, Str("Hello, test!")))>>)

elementableThrows == Obj(<<Pair("toElement", Fn("toElementThrows", TRUE, Undef))>>)

stringableThrows == Obj(<<Pair("toString", Fn("toStringThrows", TRUE, Undef))>>)

\* The trailing arguments tried: hooks, a property bag, an instance of a
\* class, and children of every kind, among them producers and lifecycle
\* hooks that raise.
ArgValues ==
  { hookA, hookThrows, bagX, Str("Hello"), Null, elementable,
    Inst(<<Pair("x", Num(1))>>),
    Arr(<<Node(1), Undef>>, <<>>),
    Arr(<<Str("a"), elementableThrows>>, <<>>),
    Arr(<<Node(2), stringableThrows>>, <<>>),
    Arr(<<Str("b")>>, <<Pair("onappend", Fn("onappendThrows", TRUE, Undef))>>) }

Tags == {"div"}

ArgLists == UNION {[1..n -> ArgValues] : n \in 0..MaxArgs}

Init ==
  /\ heap = InitHeap
  /\ call = NoCall
  /\ ncalls = 0

\* const n = createElement(tag, ...args)
CreateElementCall(tag, args) ==
  /\ call.op = "none"
  /\ LET st == createElement(Start(heap), tag, args)
     IN /\ heap' = st.heap
        /\ call' = Called("createElement", tag, args, Len(heap) + 1, heap, st, Summary(call))
        /\ ncalls' = ncalls + 1

Next == \E tag \in Tags, args \in ArgLists : CreateElementCall(tag, args)

Spec == Init /\ [][Next]_vars

----------------------------------------------------------------------------
(* Programs that apply property bags: addProps calls on a node, or bags as
   the arguments of one createElement call *)

MaxCalls == 2

\* const n = createElement('div')
PropsHeap == <<NewNode("element", "div")>>

Bags ==
  { bagX,
    Obj(<<Pair("id", Str("y")), Pair("class", Arr(<<Str("b"), Str("c")>>, <<>>))>>),
    Obj(<<Pair("class", Str("c"))>>),
    Obj(<<Pair("class", Null), Pair("id", Str("z"))>>),
    Obj(<<Pair("class", Bool(FALSE))>>),
    Obj(<<Pair("class", Undef), Pair("title", Str("t"))>>),
    Obj(<<Pair("for", Str("me")), Pair("tabindex", Num(2))>>),
    Obj(<<Pair("for", Str("us")), Pair("htmlFor", Str("other"))>>),
    Obj(<<Pair("style", Obj(<<Pair("width", Str("200px"))>>)),
          Pair("dataset", Obj(<<Pair("foo", Str("bar"))>>))>>),
    Obj(<<Pair("style", Obj(<<Pair("height", Str("40px")), Pair("width", Str("1px"))>>)),
          Pair("dataset", Obj(<<Pair("foo", Num(1))>>))>>),
    Obj(<<Pair("role", Str("button")), Pair("aria", Obj(<<Pair("valuenow", Num(12))>>))>>),
    Obj(<<Pair("id", Str("x")), Pair("role", Str("img")),
          Pair("aria", Obj(<<Pair("valuenow", Num(15)), Pair("valuemin", Num(0))>>))>>),
    Obj(<<>>) }

InitProps ==
  /\ heap = PropsHeap
  /\ call = NoCall
  /\ ncalls = 0

\* addProps(props, el)
AddPropsCall(props, el) ==
  /\ ncalls < MaxCalls
  /\ LET st == addProps(Start(heap), props, el)
     IN /\ heap' = st.heap
        /\ call' = Called("addProps", "", <<props>>, el, heap, st, Summary(call))
        /\ ncalls' = ncalls + 1

\* The node the program works on: the one it created last.
Current == Len(heap)

NextProps ==
  \/ \E props \in Bags : AddPropsCall(props, Current)
  \/ \E p1 \in Bags, p2 \in Bags : CreateElementCall("div", <<p1, p2>>)

SpecProps == InitProps /\ [][NextProps]_vars

----------------------------------------------------------------------------
(* Programs that append children: addChildren calls on a node *)

MaxLen == 2

lifecycle == <<Pair("onbeforeappend", onbeforeappendFn), Pair("onappend", onappendFn)>>

withHooks(node) ==
  [node EXCEPT !.props = MapSet(MapSet(EmptyMap, "onbeforeappend", onbeforeappendFn),
                                "onappend", onappendFn)]

\* The nodes before the call: the target div (1), which already has the
\* child 4; a detached span (2); a text node (3) inside another div (5).
\* The spans 2 and 4 carry both lifecycle hooks.
ChildrenHeap ==
  << [NewNode("element", "div") EXCEPT !.children = <<4>>],
     withHooks(NewNode("element", "span")),
     NewNode("text", "t"),
     withHooks(NewNode("element", "span")),
     [NewNode("element", "div") EXCEPT !.children = <<3>>] >>

Leaves ==
  { Node(2), Node(3), Node(4), Null, Undef, Str("Hello"), Bool(FALSE),
    elementable, stringable,
    Obj(lifecycle \o <<Pair("toElement", Fn("toElement", FALSE, Create("p")))>>),
    Obj(<<Pair("toElement", Fn("toElement", FALSE, Node(3)))>>),
    Inst(<<Pair("x", Num(1))>>) }

Nested ==
  { Node(2), Undef,
    Arr(<<Node(3), Str("a")>>, <<>>),
    Arr(<<Arr(<<Null>>, <<>>), Node(2)>>, <<>>),
    Arr(<<Node(2), Str("a")>>, lifecycle) }

ArraysOf(items) == {Arr(seq, <<>>) : seq \in UNION {[1..n -> items] : n \in 0..MaxLen}}

ChildValues == Leaves \cup Nested \cup ArraysOf(Leaves) \cup ArraysOf(Nested)

InitChildren ==
  /\ heap = ChildrenHeap
  /\ call = NoCall
  /\ ncalls = 0

\* addChildren(children, el)
AddChildrenCall(children, el) ==
  /\ call.op = "none"
  /\ LET st == addChildren(Start(heap), children, el)
     IN /\ heap' = st.heap
        /\ call' = Called("addChildren", "", <<children>>, el, heap, st, Summary(call))
        /\ ncalls' = ncalls + 1

NextChildren == \E children \in ChildValues : AddChildrenCall(children, 1)

SpecChildren == InitChildren /\ [][NextChildren]_vars

----------------------------------------------------------------------------
(* Reading the record of a createElement call *)

\* The position in the trace where the loop picked up argument i.
ArgPos(tr, i) == CHOOSE p \in 1..Len(tr) : tr[p].ev = "arg" /\ tr[p].i = i

ArgSeen(tr, i) == \E p \in 1..Len(tr) : tr[p].ev = "arg" /\ tr[p].i = i

\* The trace positions of the events argument i caused.
Segment(tr, i) ==
  {q \in 1..Len(tr) : q > ArgPos(tr, i) /\ (ArgSeen(tr, i + 1) => q < ArgPos(tr, i + 1))}

RouteKinds == {"addProps", "hook", "addChildren"}

RoutesTaken(tr, i) == {tr[q].ev : q \in {r \in Segment(tr, i) : tr[r].ev \in RouteKinds}}

IsPlainMapping(v) == v.t = "object" /\ v.plain

\* The route the classification rule names for an argument.
RuleRoute(v) ==
  IF IsPlainMapping(v) THEN "addProps"
  ELSE IF v.t = "function" THEN "hook"
  ELSE "addChildren"

\* C1: every trailing argument of createElement takes exactly one route: a
\* plain mapping object goes to addProps, otherwise a function is invoked
\* with the new node, otherwise the argument goes to addChildren; none is
\* handled twice and none is skipped.
C1_RouteByShape ==
  call.op = "createElement" =>
    \A i \in 0..(Len(call.args) - 1) :
      /\ call.status = "ok" => ArgSeen(call.trace, i)
      /\ ArgSeen(call.trace, i) =>
           /\ call.trace[ArgPos(call.trace, i) + 1].ev = RuleRoute(call.args[i + 1])
           /\ call.trace[ArgPos(call.trace, i) + 1].val = call.args[i + 1]
           /\ call.trace[ArgPos(call.trace, i) + 1].node = call.el
           /\ RoutesTaken(call.trace, i) = {RuleRoute(call.args[i + 1])}

\* The keys addProps treats specially; every other key is assigned as a
\* same-named property.
SpecialKeys == {"class", "for", "tabindex", "style", "dataset", "role", "aria"}

\* The argument index a trace position belongs to.
ArgOf(tr, p) ==
  LET q == CHOOSE r \in 1..p : tr[r].ev = "arg" /\ \A r2 \in (r + 1)..p : tr[r2].ev # "arg"
  IN tr[q].i

\* The node createElement(tag, the first n arguments) builds from the same
\* heap.
PrefixResult(n) == createElement(Start(call.pre), call.tag, SubSeq(call.args, 1, n))

\* C2: createElement processes its arguments strictly left to right, each to
\* completion: when the hook at position i is invoked the node carries
\* exactly the effects of arguments 0..i-1 and none of a later argument.
C2_HookSeesPrefix ==
  call.op = "createElement" =>
    \A p \in 1..Len(call.trace) :
      call.trace[p].ev = "hook" =>
        LET i == ArgOf(call.trace, p)
            snap == call.trace[p].snap
            earlier == {call.args[j] : j \in 1..i}
        IN /\ call.trace[p].node = call.el
           /\ snap = PrefixResult(i).heap[call.el]
           /\ \A a \in earlier :
                a.t = "object" =>
                  \A j \in 1..Len(a.own) :
                    a.own[j].k \notin SpecialKeys => a.own[j].k \in DOMAIN snap.props
           /\ (\A a \in earlier : a.t # "object") => snap.props = EmptyMap
           /\ (\E a \in earlier : a.t \notin {"object", "function"}) => snap.children # <<>>
           /\ (\A a \in earlier : a.t \in {"object", "function"}) => snap.children = <<>>

\* A hook in the middle saw the bag before it and not the child after it.
C2_Witness ==
  /\ call.op = "createElement"
  /\ call.status = "ok"
  /\ Len(call.args) = 3
  /\ call.args[1] = bagX
  /\ call.args[2] = hookA
  /\ call.args[3] = Str("Hello")
  /\ \E p \in 1..Len(call.trace) :
       /\ call.trace[p].ev = "hook"
       /\ call.trace[p].snap.props = MapSet(EmptyMap, "id", Str("x"))
       /\ call.trace[p].snap.children = <<>>
  /\ heap[call.el].children # <<>>

LastArgSeen(tr) == CHOOSE i \in 0..Len(tr) : ArgSeen(tr, i) /\ ~ArgSeen(tr, i + 1)

\* C9: when a hook, a lifecycle hook or a producer raises while argument i
\* is processed, the exception reaches the caller as raised, no argument
\* after i is processed, and the effects of arguments 0..i-1 stay on the
\* node.
C9_FailurePropagates ==
  (call.op = "createElement" /\ call.status = "throw") =>
    LET tr == call.trace
        last == tr[Len(tr)]
        i == LastArgSeen(tr)
        before == PrefixResult(i)
        node == heap[call.el]
    IN /\ last.val.t = "function" /\ last.val.throws
       /\ call.err = last.val.name
       /\ call.ret = 0
       /\ \A j \in 0..(Len(call.args) - 1) : ArgSeen(tr, j) <=> j <= i
       /\ node = last.snap
       /\ before.status = "ok"
       /\ node.props = before.heap[call.el].props
       /\ node.attrs = before.heap[call.el].attrs
       /\ node.classes = before.heap[call.el].classes
       /\ node.style = before.heap[call.el].style
       /\ node.dataset = before.heap[call.el].dataset
       /\ \A c \in 1..Len(heap) :
            InSeq(before.heap[call.el].children, c) => InSeq(node.children, c)

\* The second of three arguments raised: the bag before it stays applied,
\* the child after it was never appended.
C9_Witness ==
  /\ call.op = "createElement"
  /\ call.status = "throw"
  /\ Len(call.args) = 3
  /\ call.args[1] = bagX
  /\ call.args[3] = Str("Hello")
  /\ LastArgSeen(call.trace) = 1
  /\ "id" \in DOMAIN heap[call.el].props

HasMethod(v, key) == v.t = "object" /\ OwnGet(v.own, key).t = "function"

\* C10: an object with a toElement() or a toString() method passed as a
\* trailing argument of createElement counts as a child: the node its
\* toElement() returns (or a text node holding the result of toString()) is
\* appended and its keys are not assigned as properties of the element.
C10_ProducerArgIsChild ==
  (call.op = "createElement" /\ call.status = "ok") =>
    \A i \in 0..(Len(call.args) - 1) :
      LET a == call.args[i + 1]
          appended == {call.trace[q].val.id :
                         q \in {r \in Segment(call.trace, i) : call.trace[r].ev = "appendChild"}}
      IN /\ HasMethod(a, "toElement") =>
              /\ \E c \in appended : heap[c].kind = "element" /\ InSeq(heap[call.el].children, c)
              /\ "toElement" \notin DOMAIN heap[call.el].props
         /\ (HasMethod(a, "toString") /\ ~HasMethod(a, "toElement")) =>
              /\ \E c \in appended :
                   /\ heap[c].kind = "text"
                   /\ heap[c].name = ToStr(OwnGet(a.own, "toString").ret)
                   /\ InSeq(heap[call.el].children, c)
              /\ "toString" \notin DOMAIN heap[call.el].props

----------------------------------------------------------------------------
(* Property bags *)

Keys(bag) == {bag.own[j].k : j \in 1..Len(bag.own)}

\* Two bags were applied in order to one node: by two addProps calls in a
\* row, or as the two arguments of a createElement call.
TwoBags ==
  \/ call.op = "addProps" /\ call.prev.op = "addProps" /\ call.prev.el = call.el
  \/ call.op = "createElement" /\ Len(call.args) = 2
       /\ IsPlainMapping(call.args[1]) /\ IsPlainMapping(call.args[2])

FirstBag == IF call.op = "addProps" THEN call.prev.args[1] ELSE call.args[1]

SecondBag == IF call.op = "addProps" THEN call.args[1] ELSE call.args[2]

EntriesHeld(map, pairs, coerce) ==
  \A j \in 1..Len(pairs) :
    /\ pairs[j].k \in DOMAIN map
    /\ map[pairs[j].k] = IF coerce THEN ToStr(pairs[j].v) ELSE pairs[j].v

\* The node holds the value v for the bag key `key`.
HoldsValue(node, key, v) ==
  CASE key = "class" ->
         IF v.t = "array" THEN node.classes = classListAdd(<<>>, v.items)
         ELSE node.classes = Tokens(ToStr(v))
    [] key = "for" -> MapGet(node.props, "htmlFor") = v
    [] key = "tabindex" -> MapGet(node.props, "tabIndex") = v
    [] key = "style" -> EntriesHeld(node.style, ForIn(v), FALSE)
    [] key = "dataset" -> EntriesHeld(node.dataset, ForIn(v), TRUE)
    [] key = "role" -> "role" \in DOMAIN node.attrs /\ node.attrs["role"] = ToStr(v)
    [] key = "aria" ->
         \A j \in 1..Len(ForIn(v)) :
           /\ ("aria-" \o ForIn(v)[j].k) \in DOMAIN node.attrs
           /\ node.attrs["aria-" \o ForIn(v)[j].k] = ToStr(ForIn(v)[j].v)
    [] OTHER -> key \in DOMAIN node.props /\ node.props[key] = v

\* C3 as stated: for bags P1 and P2 applied in that order to one node, every
\* key present in both ends up with P2's value on the node.
C3_LastWriteWinsEveryKey ==
  TwoBags =>
    \A key \in Keys(FirstBag) \cap Keys(SecondBag) :
      HoldsValue(heap[call.el], key, OwnGet(SecondBag.own, key))

\* The second bag writes one target under two keys (`for` and `htmlFor`,
\* `tabindex` and `tabIndex`).
WritesAliasTwice(bag) ==
  \/ {"for", "htmlFor"} \subseteq Keys(bag)
  \/ {"tabindex", "tabIndex"} \subseteq Keys(bag)

\* C3, amended: every key other than `class` present in both bags ends up
\* with P2's value on the node (for style, dataset and aria: with every entry
\* of P2's mapping), provided P2 does not write the key's target a second
\* time under its alias.
C3_LastWriteWins ==
  (TwoBags /\ ~WritesAliasTwice(SecondBag)) =>
    \A key \in (Keys(FirstBag) \cap Keys(SecondBag)) \ {"class"} :
      HoldsValue(heap[call.el], key, OwnGet(SecondBag.own, key))

\* Both bags set `id`, to different values, and the node has the second.
C3_Witness ==
  /\ TwoBags
  /\ ~WritesAliasTwice(SecondBag)
  /\ "id" \in Keys(FirstBag) \cap Keys(SecondBag)
  /\ OwnGet(FirstBag.own, "id") # OwnGet(SecondBag.own, "id")
  /\ heap[call.el].props["id"] = OwnGet(SecondBag.own, "id")

ToSet(seq) == {seq[j] : j \in 1..Len(seq)}

IsPrefix(a, b) == Len(a) <= Len(b) /\ SubSeq(b, 1, Len(a)) = a

\* C7: applying {class: A} for an array A of class names yields a class list
\* holding exactly the classes already present plus the elements of A; the
\* elements are appended, the classes present are neither replaced nor
\* cleared.
C7_ClassArrayAppends ==
  (call.op = "addProps" /\ "class" \in Keys(call.args[1])
     /\ OwnGet(call.args[1].own, "class").t = "array") =>
    LET A == OwnGet(call.args[1].own, "class").items
        was == call.pre[call.el].classes
        now == heap[call.el].classes
    IN /\ ToSet(now) = ToSet(was) \cup {ToStr(A[j]) : j \in 1..Len(A)}
       /\ IsPrefix(was, now)
       /\ Cardinality(ToSet(now)) = Len(now)

\* An array was applied to a node that already had a class the array does
\* not name, and the list grew.
C7_Witness ==
  /\ call.op = "addProps"
  /\ "class" \in Keys(call.args[1])
  /\ OwnGet(call.args[1].own, "class").t = "array"
  /\ \E c \in ToSet(call.pre[call.el].classes) :
       c \notin {ToStr(x) : x \in ToSet(OwnGet(call.args[1].own, "class").items)}
  /\ Len(heap[call.el].classes) > Len(call.pre[call.el].classes)

\* The property or attribute names a bag may write besides class, style and
\* dataset.
PropTargets(bag) ==
  {IF k = "for" THEN "htmlFor" ELSE IF k = "tabindex" THEN "tabIndex" ELSE k :
     k \in (Keys(bag) \ SpecialKeys) \cup (Keys(bag) \cap {"for", "tabindex"})}

AttrTargets(bag) ==
  (IF "role" \in Keys(bag) THEN {"role"} ELSE {})
  \cup {"aria-" \o ForIn(OwnGet(bag.own, "aria"))[j].k :
          j \in 1..Len(ForIn(OwnGet(bag.own, "aria")))}

Changed(was, now) == {k \in DOMAIN now : k \notin DOMAIN was \/ was[k] # now[k]}

\* C8: the special keys are never assigned as same-named properties: `for`
\* sets only htmlFor, `tabindex` only tabIndex, `role` only the attribute
\* role, each entry k of `aria` only the attribute aria-k; after addProps the
\* node has no own property named for, tabindex, role or aria.
C8_SpecialKeysNotProps ==
  call.op = "addProps" =>
    LET bag == call.args[1]
        was == call.pre[call.el]
        now == heap[call.el]
    IN /\ DOMAIN now.props \cap {"for", "tabindex", "role", "aria"} = {}
       /\ Changed(was.props, now.props) \subseteq PropTargets(bag)
       /\ Changed(was.attrs, now.attrs) \subseteq AttrTargets(bag)
       /\ DOMAIN was.props \subseteq DOMAIN now.props
       /\ DOMAIN was.attrs \subseteq DOMAIN now.attrs
       /\ ("for" \in Keys(bag) /\ "htmlFor" \notin Keys(bag)) =>
            now.props["htmlFor"] = OwnGet(bag.own, "for")
       /\ "tabindex" \in Keys(bag) => now.props["tabIndex"] = OwnGet(bag.own, "tabindex")
       /\ "role" \in Keys(bag) => now.attrs["role"] = ToStr(OwnGet(bag.own, "role"))
       /\ "aria" \in Keys(bag) => HoldsValue(now, "aria", OwnGet(bag.own, "aria"))
       /\ Keys(bag) \subseteq {"for", "tabindex", "role", "aria"} =>
            /\ now.classes = was.classes
            /\ now.style = was.style
            /\ now.dataset = was.dataset

\* A bag with role and aria reached the node as attributes only.
C8_Witness ==
  /\ call.op = "addProps"
  /\ {"role", "aria"} \subseteq Keys(call.args[1])
  /\ "id" \notin Keys(call.args[1])
  /\ heap[call.el].attrs["role"] = "button"
  /\ heap[call.el].attrs["aria-valuenow"] = "12"
  /\ heap[call.el].props = call.pre[call.el].props

----------------------------------------------------------------------------
(* Children *)

\* The non-sequence leaves of a child value, depth first, left to right.
RECURSIVE Flatten(_)
RECURSIVE FlattenAll(_)
Flatten(v) == IF v.t = "array" THEN FlattenAll(v.items) ELSE <<v>>

FlattenAll(items) ==
  IF items = <<>> THEN <<>> ELSE Flatten(items[1]) \o FlattenAll(Tail(items))

\* A leaf whose content is a node that exists already: a node, or an object
\* whose toElement() hands out an existing node.
Existing(leaf) ==
  IF leaf.t = "node" THEN leaf.id
  ELSE IF HasMethod(leaf, "toElement") /\ OwnGet(leaf.own, "toElement").ret.t = "node"
  THEN OwnGet(leaf.own, "toElement").ret.id
  ELSE 0

\* The content of each leaf, in leaf order: the existing node, or a new node
\* (new nodes take the heap indices after `last` in the order of their
\* leaves).
RECURSIVE ContentOf(_, _)
ContentOf(leaves, last) ==
  IF leaves = <<>> THEN <<>>
  ELSE IF Existing(leaves[1]) # 0
  THEN <<Existing(leaves[1])>> \o ContentOf(Tail(leaves), last)
  ELSE <<last + 1>> \o ContentOf(Tail(leaves), last + 1)

\* What the new node made for a leaf must look like.
LeafKind(leaf) ==
  IF leaf.t \in {"undefined", "null"} THEN "comment"
  ELSE IF HasMethod(leaf, "toElement") THEN "element"
  ELSE "text"

LeafText(leaf) ==
  IF leaf.t \in {"undefined", "null"} THEN IF leaf.t = "null" THEN "null" ELSE "undefined"
  ELSE IF HasMethod(leaf, "toElement") THEN OwnGet(leaf.own, "toElement").ret.tag
  ELSE IF HasMethod(leaf, "toString") THEN OwnGet(leaf.own, "toString").ret.s
  ELSE IF leaf.t = "string" THEN leaf.s
  ELSE IF leaf.t = "boolean" THEN IF leaf.b THEN "true" ELSE "false"
  ELSE "[object Object]"

RECURSIVE WithoutAll(_, _)
WithoutAll(s, xs) ==
  IF s = <<>> THEN <<>>
  ELSE IF s[1] \in xs THEN WithoutAll(Tail(s), xs)
  ELSE <<s[1]>> \o WithoutAll(Tail(s), xs)

\* s with each element kept at its last occurrence only.
RECURSIVE LastOccurrences(_)
LastOccurrences(s) ==
  IF s = <<>> THEN <<>>
  ELSE IF InSeq(Tail(s), s[1]) THEN LastOccurrences(Tail(s))
  ELSE <<s[1]>> \o LastOccurrences(Tail(s))

CallLeaves == Flatten(call.args[1])

CallContent == ContentOf(CallLeaves, Len(call.pre))

NewContentAsExpected ==
  \A k \in 1..Len(CallLeaves) :
    Existing(CallLeaves[k]) = 0 =>
      /\ CallContent[k] \in (Len(call.pre) + 1)..Len(heap)
      /\ heap[CallContent[k]].kind = LeafKind(CallLeaves[k])
      /\ heap[CallContent[k]].name = LeafText(CallLeaves[k])

\* C4 as stated: the children addChildren gives the target are, in order,
\* the content of the depth-first left-to-right flattening of the value: one
\* child per non-sequence leaf, in the order of the leaves.
C4_OneChildPerLeaf ==
  (call.op = "addChildren" /\ call.status = "ok") =>
    /\ heap[call.el].children =
         WithoutAll(call.pre[call.el].children, ToSet(CallContent)) \o CallContent
    /\ NewContentAsExpected

\* C4, amended: the children are the content of the flattening in leaf
\* order, one child per leaf, except that a node occurring more than once
\* among the leaves is a child once, at the place of its last occurrence.
C4_FlattenedInOrder ==
  (call.op = "addChildren" /\ call.status = "ok") =>
    /\ heap[call.el].children =
         WithoutAll(call.pre[call.el].children, ToSet(CallContent))
           \o LastOccurrences(CallContent)
    /\ NewContentAsExpected

\* A sequence nested two deep was flattened into the target in leaf order.
C4_Witness ==
  /\ call.op = "addChildren"
  /\ call.status = "ok"
  /\ call.args[1] = Arr(<<Arr(<<Arr(<<Null>>, <<>>), Node(2)>>, <<>>), Arr(<<Node(3), Str("a")>>, <<>>)>>, <<>>)
  /\ heap[1].children = <<4, 6, 2, 3, 7>>
  /\ heap[6].kind = "comment"
  /\ heap[7].kind = "text"

AppendEvents == SelectSeq(call.trace, LAMBDA e : e.ev = "appendChild")

Position(s, x) == CHOOSE j \in 1..Len(s) : s[j] = x

\* C5: a null or undefined child is never dropped: wherever it occurs,
\* directly or inside a sequence, exactly one new comment node with the text
\* "null" or "undefined" is appended, at the place the value has in the
\* append order.
C5_NullBecomesComment ==
  (call.op = "addChildren" /\ call.status = "ok") =>
    /\ Len(AppendEvents) = Len(CallLeaves)
    /\ \A k \in 1..Len(CallLeaves) :
         CallLeaves[k].t \in {"undefined", "null"} =>
           LET c == AppendEvents[k].val.id
           IN /\ c > Len(call.pre)
              /\ c <= Len(heap)
              /\ heap[c].kind = "comment"
              /\ heap[c].name = (IF CallLeaves[k].t = "null" THEN "null" ELSE "undefined")
              /\ \A k2 \in 1..Len(CallLeaves) : k2 # k => AppendEvents[k2].val.id # c
              /\ InSeq(heap[call.el].children, c)
              /\ \A k2 \in 1..Len(CallLeaves) :
                   LET d == AppendEvents[k2].val.id
                   IN InSeq(heap[call.el].children, d) =>
                        /\ (k2 < k /\ \A k3 \in k..Len(CallLeaves) : AppendEvents[k3].val.id # d)
                             => Position(heap[call.el].children, d)
                                  < Position(heap[call.el].children, c)
                        /\ k2 > k => Position(heap[call.el].children, d)
                                       > Position(heap[call.el].children, c)
    /\ Cardinality({c \in (Len(call.pre) + 1)..Len(heap) : heap[c].kind = "comment"})
         = Cardinality({k \in 1..Len(CallLeaves) : CallLeaves[k].t \in {"undefined", "null"}})

\* undefined after a node, inside a sequence, became the comment that
\* follows the node.
C5_Witness ==
  /\ call.op = "addChildren"
  /\ call.args[1] = Arr(<<Node(2), Undef>>, <<>>)
  /\ heap[1].children = <<4, 2, 6>>
  /\ heap[6].kind = "comment"
  /\ heap[6].name = "undefined"

\* The value exposes both lifecycle hooks as functions.
HasBothHooks(h, v) ==
  /\ Truthy(v)
  /\ Get(h, v, "onbeforeappend").t = "function"
  /\ Get(h, v, "onappend").t = "function"

HookCount(h, v) ==
  IF ~Truthy(v) THEN 0
  ELSE (IF Get(h, v, "onbeforeappend").t = "function" THEN 1 ELSE 0)
       + (IF Get(h, v, "onappend").t = "function" THEN 1 ELSE 0)

\* The number of events addChildren(v, P) records when nothing raises: its
\* entry, its hooks, and one append per leaf, preceded by the producer's
\* call where the leaf has one.
RECURSIVE EventCount(_, _)
RECURSIVE EventCountAll(_, _)
EventCount(h, v) ==
  1 + HookCount(h, v)
    + (IF v.t = "array" THEN EventCountAll(h, v.items)
       ELSE IF v.t \in {"node", "undefined", "null"} THEN 1
       ELSE 2)

EventCountAll(h, items) ==
  IF items = <<>> THEN 0 ELSE EventCount(h, items[1]) + EventCountAll(h, Tail(items))

\* The nodes appended between the trace positions p and q.
ContentBetween(tr, p, q) == {tr[r].val.id : r \in {x \in p..q : tr[x].ev = "appendChild"}}

\* C6 as stated: for a child with both onbeforeappend and onappend,
\* addChildren(child, P) calls onbeforeappend with P while the child's
\* content is not yet among P's children, then appends the content, then
\* calls onappend with P while the content is among P's children.
C6_HooksAroundAppendAbsent ==
  (call.op = "addChildren" /\ call.status = "ok") =>
    \A p \in 1..Len(call.trace) :
      (call.trace[p].ev = "addChildren" /\ HasBothHooks(call.pre, call.trace[p].val)) =>
        LET tr == call.trace
            q == p + EventCount(call.pre, tr[p].val) - 1
            content == ContentBetween(tr, p, q)
        IN /\ tr[p + 1].ev = "onbeforeappend"
           /\ tr[p + 1].node = call.el
           /\ tr[p + 1].val = Get(call.pre, tr[p].val, "onbeforeappend")
           /\ \A c \in content : ~InSeq(tr[p + 1].snap.children, c)
           /\ tr[q].ev = "onappend"
           /\ tr[q].node = call.el
           /\ tr[q].val = Get(call.pre, tr[p].val, "onappend")
           /\ \A c \in content : InSeq(tr[q].snap.children, c)
           /\ \A r \in (p + 2)..(q - 1) : tr[r].ev \notin {"onbeforeappend", "onappend"}
                \/ tr[p].val.t = "array"

\* C6, amended: onbeforeappend is called with P before anything of the
\* child is appended (P is as it was when addChildren(child, P) was
\* entered, so the content is absent unless it was a child of P already),
\* then the content is appended, then onappend is called with P while the
\* content is among P's children.
C6_HooksAroundAppend ==
  (call.op = "addChildren" /\ call.status = "ok") =>
    \A p \in 1..Len(call.trace) :
      (call.trace[p].ev = "addChildren" /\ HasBothHooks(call.pre, call.trace[p].val)) =>
        LET tr == call.trace
            q == p + EventCount(call.pre, tr[p].val) - 1
            content == ContentBetween(tr, p, q)
        IN /\ tr[p + 1].ev = "onbeforeappend"
           /\ tr[p + 1].node = call.el
           /\ tr[p + 1].val = Get(call.pre, tr[p].val, "onbeforeappend")
           /\ tr[p + 1].snap = tr[p].snap
           /\ \A c \in content :
                ~InSeq(tr[p].snap.children, c) => ~InSeq(tr[p + 1].snap.children, c)
           /\ tr[q].ev = "onappend"
           /\ tr[q].node = call.el
           /\ tr[q].val = Get(call.pre, tr[p].val, "onappend")
           /\ \A c \in content : InSeq(tr[q].snap.children, c)
           /\ \A r \in (p + 2)..(q - 1) : tr[r].ev \notin {"onbeforeappend", "onappend"}
                \/ tr[p].val.t = "array"

\* The detached span 2 was appended: its before-hook saw the target without
\* it, its after-hook saw the target with it.
C6_Witness ==
  /\ call.op = "addChildren"
  /\ call.args[1] = Node(2)
  /\ Len(call.trace) = 4
  /\ call.trace[2].ev = "onbeforeappend"
  /\ call.trace[2].snap.children = <<4>>
  /\ call.trace[3].ev = "appendChild"
  /\ call.trace[4].ev = "onappend"
  /\ call.trace[4].snap.children = <<4, 2>>

----------------------------------------------------------------------------
(* Programs that pass one property bag and one child to createElement, in
   either order *)

\* The children tried next to a bag: a string, a node, null, a sequence,
\* and an instance of a class (README: "All other types of objects,
\* including non-plain objects, ... are treated as children").
OrderChildren ==
  { Str("Hello, DIV!"), Node(1), Null,
    Arr(<<Node(2), Str("a")>>, <<>>),
    Inst(<<Pair("id", Str("point"))>>) }

\* createElement('div', P, c) or createElement('div', c, P)
NextOrder ==
  \/ \E P \in Bags, c \in OrderChildren : CreateElementCall("div", <<P, c>>)
  \/ \E P \in Bags, c \in OrderChildren : CreateElementCall("div", <<c, P>>)

SpecOrder == Init /\ [][NextOrder]_vars

\* A value the documentation counts as a child: neither a plain mapping
\* object nor a function.
IsChildValue(v) == ~IsPlainMapping(v) /\ v.t # "function"

\* The children of a node as they look from outside: a node that existed
\* before the call by its identity, a node the call made by kind and text.
RECURSIVE Shape(_, _, _)
Shape(h, ids, last) ==
  IF ids = <<>> THEN <<>>
  ELSE <<IF ids[1] <= last THEN [id |-> ids[1], kind |-> "", name |-> ""]
         ELSE [id |-> 0, kind |-> h[ids[1]].kind, name |-> h[ids[1]].name]>>
       \o Shape(h, Tail(ids), last)

\* The node n of heap h and the node m of heap g have identical properties,
\* attributes, class list, style, custom data and children.
SameNode(h, n, g, m, last) ==
  /\ h[n].props = g[m].props
  /\ h[n].attrs = g[m].attrs
  /\ h[n].classes = g[m].classes
  /\ h[n].style = g[m].style
  /\ h[n].dataset = g[m].dataset
  /\ Shape(h, h[n].children, last) = Shape(g, g[m].children, last)

\* The same createElement call with its two arguments exchanged.
Exchanged == createElement(Start(call.pre), call.tag, <<call.args[2], call.args[1]>>)

BagAndChild ==
  /\ call.op = "createElement"
  /\ Len(call.args) = 2
  /\ \E i \in 1..2 : IsPlainMapping(call.args[i]) /\ IsChildValue(call.args[3 - i])

\* C11: the role of a trailing argument is determined by its type and not by
\* its position: for every property bag P and every child value c,
\* createElement(tag, P, c) and createElement(tag, c, P) produce nodes with
\* identical properties, attributes, class list and children.
C11_PositionIrrelevant ==
  (BagAndChild /\ call.status = "ok") =>
    /\ Exchanged.status = "ok"
    /\ SameNode(heap, call.ret, Exchanged.heap, Exchanged.ret, Len(call.pre))

\* For a child createElement hands to addChildren the two orders build the
\* same node.
OrderIrrelevantForRoutedChildren ==
  (BagAndChild /\ call.status = "ok"
     /\ \A i \in 1..2 : ObjectToString(call.args[i]) = "[object Object]" => IsPlainMapping(call.args[i])) =>
    /\ Exchanged.status = "ok"
    /\ SameNode(heap, call.ret, Exchanged.heap, Exchanged.ret, Len(call.pre))

----------------------------------------------------------------------------
(* Programs that hand addChildren a value of any shape *)

\* A plain object whose toString is not callable.
noToString == Obj(<<Pair("toString", Undef)>>)

\* toElement() returning something that is not a node.
elementableNoNode == Obj(<<Pair("toElement", Fn("toElement", FALSE, Str("span")))>>)

\* Both producers on one object.
elementableStringable ==
  Obj(<<Pair("toElement", Fn("toElement", FALSE, Create("b"))),
        Pair("toString", Fn("toString", FALSE, Str("bold")))>>)

\* Both producers, the first of which raises.
elementableThrowsStringable ==
  Obj(<<Pair("toElement", Fn("toElementThrows", TRUE, Undef)),
        Pair("toString", Fn("toString", FALSE, Str("bold")))>>)

\* The shapes a child can have: primitives, falsy ones among them, null,
\* undefined, nodes, objects with and without producers, the empty sequence.
Shapes ==
  { Str("Hello"), Str(""), Num(0), Bool(FALSE), Null, Undef,
    Node(2), Node(3), Node(4),
    elementable, stringable, elementableStringable, Inst(<<Pair("x", Num(1))>>),
    noToString, elementableNoNode, elementableThrows, stringableThrows,
    elementableThrowsStringable,
    Arr(<<>>, <<>>) }

ShapeValues == Shapes \cup ArraysOf(Shapes)

NextShapes == \E children \in ShapeValues : AddChildrenCall(children, 1)

SpecShapes == InitChildren /\ [][NextShapes]_vars

\* What a leaf's own toString is when it has one, else the inherited one.
LeafToString(v) ==
  IF HasOwn(v.own, "toString") THEN OwnGet(v.own, "toString") ELSE Fn("toString", FALSE, Str(""))

\* The leaves on which the dispatch of addChildren raises: a producer that
\* raises, a toElement() result that is not a node, and an object without a
\* callable toString, which '' + children cannot convert.
LeafRaises(v) ==
  /\ v.t = "object"
  /\ IF OwnGet(v.own, "toElement").t = "function"
     THEN OwnGet(v.own, "toElement").throws
            \/ OwnGet(v.own, "toElement").ret.t \notin {"node", "create"}
     ELSE IF LeafToString(v).t = "function" THEN LeafToString(v).throws
     ELSE TRUE

Appends(tr) == {p \in 1..Len(tr) : tr[p].ev = "appendChild"}

----------------------------------------------------------------------------
(* Reading the record of an addChildren call: the nesting of its hooks *)

HasHook(h, v, key) == Truthy(v) /\ Get(h, v, key).t = "function"

HookEvents(tr, p, q) == {r \in p..q : tr[r].ev \in {"onbeforeappend", "onappend"}}

\* The number of hook invocations addChildren(v, P) owes: those of v and,
\* for a sequence, those of each of its elements.
RECURSIVE HooksOwed(_, _)
RECURSIVE HooksOwedAll(_, _)
HooksOwed(h, v) ==
  HookCount(h, v) + (IF v.t = "array" THEN HooksOwedAll(h, v.items) ELSE 0)

HooksOwedAll(h, items) ==
  IF items = <<>> THEN 0 ELSE HooksOwed(h, items[1]) + HooksOwedAll(h, Tail(items))

\* The events from position p on are those of addChildren(v, P): the entry,
\* v's before-hook if it has one, then the events of each element in turn
\* (for a sequence) or the append with no hook invocation in it (for
\* anything else), then v's after-hook if it has one.
RECURSIVE Nests(_, _, _, _, _)
RECURSIVE NestsAll(_, _, _, _, _)
Nests(h, tr, p, v, el) ==
  LET b == IF HasHook(h, v, "onbeforeappend") THEN 1 ELSE 0
      a == IF HasHook(h, v, "onappend") THEN 1 ELSE 0
      q == p + EventCount(h, v) - 1
  IN /\ q <= Len(tr)
     /\ tr[p].ev = "addChildren" /\ tr[p].val = v
     /\ b = 1 => /\ tr[p + 1].ev = "onbeforeappend"
                 /\ tr[p + 1].val = Get(h, v, "onbeforeappend")
                 /\ tr[p + 1].node = el
                 /\ tr[p + 1].snap = tr[p].snap
     /\ a = 1 => /\ tr[q].ev = "onappend"
                 /\ tr[q].val = Get(h, v, "onappend")
                 /\ tr[q].node = el
     /\ IF v.t = "array" THEN NestsAll(h, tr, p + 1 + b, v.items, el)
        ELSE /\ HookEvents(tr, p + 1 + b, q - a) = {}
             /\ tr[q - a].ev = "appendChild"
     /\ Cardinality(HookEvents(tr, p, q)) = HooksOwed(h, v)
     /\ a = 1 => \A r \in p..(q - 1) : tr[r].ev = "appendChild" => InSeq(tr[q].snap.children, tr[r].val.id)

NestsAll(h, tr, p, items, el) ==
  \/ items = <<>>
  \/ /\ Nests(h, tr, p, items[1], el)
     /\ NestsAll(h, tr, p + EventCount(h, items[1]), Tail(items), el)

\* C13: within one addChildren call the hooks of each value run exactly
\* once: a sequence's before-hook runs once before any of its elements or
\* their hooks is processed, its after-hook once after all its elements
\* have been appended, each element's own hooks run around that element's
\* append, and there is no other hook invocation.
C13_HooksNestedOnce ==
  (call.op = "addChildren" /\ call.status = "ok") =>
    /\ Len(call.trace) = EventCount(call.pre, call.args[1])
    /\ Nests(call.pre, call.trace, 1, call.args[1], call.el)

\* A sequence with both hooks around a span with both hooks and a string.
C13_Witness ==
  /\ call.op = "addChildren"
  /\ call.args[1] = Arr(<<Node(2), Str("a")>>, lifecycle)
  /\ call.status = "ok"
  /\ Len(call.trace) = 10
  /\ call.trace[2].ev = "onbeforeappend" /\ call.trace[2].snap.children = <<4>>
  /\ call.trace[4].ev = "onbeforeappend" /\ call.trace[4].val = onbeforeappendFn
  /\ call.trace[6].ev = "onappend" /\ call.trace[6].snap.children = <<4, 2>>
  /\ call.trace[10].ev = "onappend"
  /\ Len(call.trace[10].snap.children) = 3

----------------------------------------------------------------------------
(* The `class` key with a value that is no array *)

\* The class list before the bag at argument position n of the call was
\* applied: for addProps the node as the call found it, for createElement
\* the node the arguments before it built.
ClassesBefore(n) ==
  IF call.op = "addProps" THEN call.pre[call.el].classes
  ELSE PrefixResult(n - 1).heap[call.el].classes

ClassesAfter(n) ==
  IF call.op = "addProps" THEN heap[call.el].classes
  ELSE PrefixResult(n).heap[call.el].classes

\* The class list a class attribute holding the string s stands for (the
\* strings tried hold no white space).
ClassAttribute(s) == IF s = "" THEN <<>> ELSE <<s>>

\* C14: for a value v under `class` that is no array: null and undefined
\* leave the node's class state exactly as it was; any other v makes its
\* string coercion the whole class attribute, replacing every class set
\* before, those added from an array included.
C14_ScalarClassReplaces ==
  call.op \in {"addProps", "createElement"} =>
    \A n \in 1..Len(call.args) :
      (IsPlainMapping(call.args[n]) /\ HasOwn(call.args[n].own, "class")
         /\ OwnGet(call.args[n].own, "class").t # "array") =>
        LET v == OwnGet(call.args[n].own, "class")
        IN IF v.t \in {"null", "undefined"}
           THEN ClassesAfter(n) = ClassesBefore(n)
           ELSE ClassesAfter(n) = ClassAttribute(ToStr(v))

\* false as the class of a node that had the classes a and b from an array.
C14_Witness ==
  /\ call.op = "addProps"
  /\ call.args[1] = Obj(<<Pair("class", Bool(FALSE))>>)
  /\ call.pre[call.el].classes = <<"a", "b">>
  /\ heap[call.el].classes = <<"false">>

----------------------------------------------------------------------------
(* Programs that give `style`, `dataset` or `aria` a value that is no
   mapping *)

MappingKeys == {"style", "dataset", "aria"}

NonMappings ==
  { Null, Undef, Num(5), Bool(TRUE), Str(""), Str("ab"),
    Arr(<<>>, <<>>), Arr(<<Str("x"), Num(1)>>, <<>>) }

\* One wrongly shaped key each, and two bags that fill the node's style,
\* custom data and attributes beforehand.
ShapedBags ==
  {Obj(<<Pair(k, v)>>) : k \in MappingKeys, v \in NonMappings}
    \cup { Obj(<<Pair("style", Obj(<<Pair("width", Str("200px"))>>)),
                 Pair("dataset", Obj(<<Pair("foo", Str("bar"))>>))>>),
           Obj(<<Pair("role", Str("button")), Pair("aria", Obj(<<Pair("valuenow", Num(12))>>))>>) }

NextShapedProps == \E props \in ShapedBags : AddPropsCall(props, Current)

SpecShapedProps == InitProps /\ [][NextShapedProps]_vars

\* The call applied a bag whose only key is one of style, dataset and aria,
\* with a value that is no mapping.
WronglyShaped ==
  /\ call.op = "addProps"
  /\ Len(call.args[1].own) = 1
  /\ call.args[1].own[1].k \in MappingKeys
  /\ call.args[1].own[1].v.t # "object"

\* The indices `for .. in` visits on a value that is no mapping: those of a
\* string's characters or an array's elements, none for anything else.
IndexCount(v) ==
  CASE v.t = "string" -> Len(Chars(v.s))
    [] v.t = "array" -> Len(v.items)
    [] OTHER -> 0

IndexValue(v, j) == IF v.t = "string" THEN Str(Chars(v.s)[j]) ELSE v.items[j]

\* C15 as stated: a value that is no mapping under style, dataset or aria
\* raises no error and leaves the node's style map, custom-data map and
\* attributes as they were.
C15_NonMappingNoOp ==
  WronglyShaped =>
    /\ call.status = "ok"
    /\ heap[call.el].style = call.pre[call.el].style
    /\ heap[call.el].dataset = call.pre[call.el].dataset
    /\ heap[call.el].attrs = call.pre[call.el].attrs

\* C15: null, undefined, a number, a boolean, the empty string and the
\* empty array under style, dataset or aria raise no error and leave the
\* node as it was; a string or an array with elements is enumerated by
\* index, so under dataset each index becomes a custom-data entry and under
\* aria an attribute aria-<index>, holding the character or element.
C15_NonMappingByIndex ==
  WronglyShaped =>
    LET k == call.args[1].own[1].k
        v == call.args[1].own[1].v
        was == call.pre[call.el]
        now == heap[call.el]
    IN /\ call.status = "ok"
       /\ IndexCount(v) = 0 => heap = call.pre
       /\ now.props = was.props /\ now.classes = was.classes /\ now.children = was.children
       /\ k # "style" => now.style = was.style
       /\ k # "dataset" => now.dataset = was.dataset
       /\ k # "aria" => now.attrs = was.attrs
       /\ k = "dataset" =>
            /\ DOMAIN now.dataset = DOMAIN was.dataset \cup {NumStr(j - 1) : j \in 1..IndexCount(v)}
            /\ \A j \in 1..IndexCount(v) : now.dataset[NumStr(j - 1)] = ToStr(IndexValue(v, j))
            /\ \A d \in DOMAIN was.dataset : d \in {"0", "1"} \/ now.dataset[d] = was.dataset[d]
       /\ k = "aria" =>
            /\ DOMAIN now.attrs = DOMAIN was.attrs \cup {"aria-" \o NumStr(j - 1) : j \in 1..IndexCount(v)}
            /\ \A j \in 1..IndexCount(v) : now.attrs["aria-" \o NumStr(j - 1)] = ToStr(IndexValue(v, j))
            /\ \A d \in DOMAIN was.attrs : d \in {"aria-0", "aria-1"} \/ now.attrs[d] = was.attrs[d]

\* aria: 'ab' on a node with a role and aria-valuenow.
C15_Witness ==
  /\ WronglyShaped
  /\ call.args[1] = Obj(<<Pair("aria", Str("ab"))>>)
  /\ DOMAIN call.pre[call.el].attrs = {"role", "aria-valuenow"}
  /\ DOMAIN heap[call.el].attrs = {"role", "aria-valuenow", "aria-0", "aria-1"}
  /\ heap[call.el].attrs["aria-1"] = "b"

----------------------------------------------------------------------------
(* Two bags in sequence against their merge *)

\* {...P1, ...P2}: every key of P1 in P1's order, with P2's value where P2
\* has the key, then the keys only P2 has, in P2's order.
RECURSIVE Overridden(_, _)
Overridden(own, by) ==
  IF own = <<>> THEN <<>>
  ELSE <<Pair(own[1].k, IF HasOwn(by, own[1].k) THEN OwnGet(by, own[1].k) ELSE own[1].v)>>
       \o Overridden(Tail(own), by)

RECURSIVE Added(_, _)
Added(own, to) ==
  IF own = <<>> THEN <<>>
  ELSE (IF HasOwn(to, own[1].k) THEN <<>> ELSE <<own[1]>>) \o Added(Tail(own), to)

Merge(P1, P2) == Obj(Overridden(P1.own, P2.own) \o Added(P2.own, P1.own))

\* Two bags were applied in order to a node that was new before the first:
\* the two arguments of a createElement call, or the first two addProps
\* calls on the program's node.
TwoBagsOnNew ==
  \/ call.op = "createElement" /\ Len(call.args) = 2
       /\ IsPlainMapping(call.args[1]) /\ IsPlainMapping(call.args[2])
  \/ call.op = "addProps" /\ call.prev.op = "addProps" /\ ncalls = 2

\* The heap one application of the bag P leaves, from the same start.
AppliedOnce(P) ==
  IF call.op = "createElement" THEN createElement(Start(call.pre), call.tag, <<P>>).heap
  ELSE addProps(Start(PropsHeap), P, call.el).heap

HasClassArray(bag) == HasOwn(bag.own, "class") /\ OwnGet(bag.own, "class").t = "array"

\* C16 as stated: for bags P1 and P2 without a `class` array, P1 then P2
\* leaves the node in the state one application of their key-wise merge
\* leaves it in.
C16_SequenceIsMerge ==
  (TwoBagsOnNew /\ ~HasClassArray(FirstBag) /\ ~HasClassArray(SecondBag)) =>
    heap = AppliedOnce(Merge(FirstBag, SecondBag))

Aliases == {{"for", "htmlFor"}, {"tabindex", "tabIndex"}}

\* The keys of the two bags for which the second bag's value does not
\* simply take the place of the first's: the mappings style, dataset and
\* aria, which accumulate entry by entry, and a class the second bag gives
\* as null or undefined, which keeps the first bag's class.
Accumulating(P1, P2) ==
  {k \in Keys(P1) \cap Keys(P2) :
     \/ k \in MappingKeys
     \/ k = "class" /\ OwnGet(P2.own, "class").t \in {"null", "undefined"}}

\* C16: P1 then P2 equals one application of the merge when the bags have no
\* `class` array, share none of style, dataset and aria, P2 does not give
\* null or undefined for a class P1 sets, and the two bags together do not
\* write one target under both of its names; applying the same bag twice
\* equals applying it once for every bag.
C16_SequenceIsMergeOfPlainKeys ==
  TwoBagsOnNew =>
    /\ (/\ ~HasClassArray(FirstBag) /\ ~HasClassArray(SecondBag)
        /\ Accumulating(FirstBag, SecondBag) = {}
        /\ \A al \in Aliases : ~(al \subseteq (Keys(FirstBag) \cup Keys(SecondBag))))
         => heap = AppliedOnce(Merge(FirstBag, SecondBag))
    /\ FirstBag = SecondBag => heap = AppliedOnce(FirstBag)

\* Both bags set id and the second a class; the node is the merge's node.
C16_Witness ==
  /\ TwoBagsOnNew
  /\ call.op = "addProps"
  /\ FirstBag = Obj(<<Pair("id", Str("x")), Pair("role", Str("img")),
                      Pair("aria", Obj(<<Pair("valuenow", Num(15)), Pair("valuemin", Num(0))>>))>>)
  /\ SecondBag = Obj(<<Pair("class", Null), Pair("id", Str("z"))>>)
  /\ heap[call.el].props = ("id" :> Str("z"))
  /\ heap = AppliedOnce(Merge(FirstBag, SecondBag))

----------------------------------------------------------------------------
(* A child with both producers *)

\* v is no node and exposes both a toElement and a toString method of its
\* own.
HasBothProducers(v) ==
  /\ v.t = "object"
  /\ OwnGet(v.own, "toElement").t = "function"
  /\ OwnGet(v.own, "toString").t = "function"

\* C17: for a child that is no node and exposes both toElement and
\* toString, addChildren calls toElement() and appends the node it returns;
\* it does not call toString() and appends no text node for the value.
C17_ElementableFirst ==
  call.op = "addChildren" =>
    \A p \in 1..Len(call.trace) :
      (call.trace[p].ev = "addChildren" /\ HasBothProducers(call.trace[p].val)) =>
        LET tr == call.trace
            v == tr[p].val
            f == OwnGet(v.own, "toElement")
        IN /\ Len(tr) > p
           /\ tr[p + 1].ev = "toElement" /\ tr[p + 1].val = f
           /\ \A r \in 1..Len(tr) : tr[r].ev = "toString" => tr[r].val # OwnGet(v.own, "toString")
           /\ IF f.throws THEN Len(tr) = p + 1 /\ call.status = "throw"
              ELSE /\ Len(tr) > p + 1
                   /\ tr[p + 2].ev = "appendChild"
                   /\ heap[tr[p + 2].val.id].kind = "element"
                   /\ heap[tr[p + 2].val.id].name = f.ret.tag
                   /\ Len(tr) > p + 2 => tr[p + 3].ev = "addChildren"

\* The object with both producers after a string: one text node for the
\* string, then the element of toElement(), and toString() never called.
C17_Witness ==
  /\ call.op = "addChildren"
  /\ call.args[1] = Arr(<<Str("Hello"), elementableStringable>>, <<>>)
  /\ call.status = "ok"
  /\ Len(heap[1].children) = 3
  /\ heap[heap[1].children[3]].kind = "element"
  /\ heap[heap[1].children[3]].name = "b"
  /\ Len(heap) = Len(call.pre) + 2

----------------------------------------------------------------------------
(* Programs that make several calls: createElement calls whose nodes later
   calls target, and addChildren calls on them *)

\* The trailing arguments of the createElement calls: nothing, a bag, and
\* nodes the program holds already, alone or after a string.
LaterArgs ==
  { <<>>, <<bagX>>, <<Node(1)>>, <<Node(2)>>, <<Node(3)>>, <<Str("a"), Node(2)>> }

\* The children of the addChildren calls: the span, the text node, both in
\* a sequence, a string, null.
LaterChildren ==
  { Node(1), Node(2), Arr(<<Node(2), Node(1)>>, <<>>), Str("b"), Null }

\* The nodes earlier createElement calls returned.
Returned == {n \in 4..Len(heap) : heap[n].kind = "element" /\ heap[n].name = "div"}

\* const n = createElement(tag, ...args), any number of times.
CreateElementAgain(tag, args) ==
  /\ ncalls < MaxCalls
  /\ LET st == createElement(Start(heap), tag, args)
     IN /\ heap' = st.heap
        /\ call' = Called("createElement", tag, args, Len(heap) + 1, heap, st, Summary(call))
        /\ ncalls' = ncalls + 1

\* addChildren(children, el), any number of times.
AddChildrenAgain(children, el) ==
  /\ ncalls < MaxCalls
  /\ LET st == addChildren(Start(heap), children, el)
     IN /\ heap' = st.heap
        /\ call' = Called("addChildren", "", <<children>>, el, heap, st, Summary(call))
        /\ ncalls' = ncalls + 1

NextCalls ==
  \/ \E args \in LaterArgs : CreateElementAgain("div", args)
  \/ \E children \in LaterChildren, el \in Returned \cup {3} : AddChildrenAgain(children, el)

SpecCalls == Init /\ [][NextCalls]_vars

\* The nodes the call received as arguments.
RECURSIVE NodesAmong(_)
NodesAmong(items) ==
  IF items = <<>> THEN {}
  ELSE (CASE items[1].t = "node" -> {items[1].id}
          [] items[1].t = "array" -> NodesAmong(items[1].items)
          [] OTHER -> {}) \cup NodesAmong(Tail(items))

\* The nodes the call appended.
Moved == {call.trace[p].val.id : p \in Appends(call.trace)}

\* C18 as stated: a createElement or addChildren call changes only the node
\* it creates or targets and the nodes it receives as arguments; every
\* other node that existed before the call has the same properties and the
\* same children after it.
C18_OthersUnchanged ==
  call.op \in {"createElement", "addChildren"} =>
    \A n \in 1..Len(call.pre) :
      (n # call.el /\ n \notin NodesAmong(call.args)) => heap[n] = call.pre[n]

\* C18: a createElement or addChildren call leaves every node that existed
\* before it, other than its target, with the same properties, attributes,
\* classes, style and custom data, and with the same children except those
\* the call appended elsewhere: a node that is appended leaves the parent
\* it had, whichever node that is.
C18_OnlyFormerParentsChange ==
  call.op \in {"createElement", "addChildren"} =>
    /\ Len(heap) >= Len(call.pre)
    /\ \A n \in 1..Len(call.pre) :
         n # call.el => heap[n] = [call.pre[n] EXCEPT !.children = WithoutAll(@, Moved)]

\* The text node 2 was passed to a second createElement call and left the
\* node the first call had returned.
C18_Witness ==
  /\ call.op = "createElement"
  /\ call.args = <<Node(2)>>
  /\ call.prev.op = "createElement"
  /\ call.pre[4].children = <<2>>
  /\ heap[4].children = <<>>
  /\ heap[5].children = <<2>>

====
